---- MODULE Spec2Model ----
(***************************************************************************)
(* A model of the point_cloud_viewer serving core:                         *)
(*   - octree_web_viewer/src/state.rs : AppState, the shared octree cache  *)
(*     (load_octree / insert_octree / get_octree_address);                 *)
(*   - xray/src/lib.rs : Meta::get_nodes_for_level, the quadtree traversal.*)
(* Strings are sequences of one-character strings, so that len(),          *)
(* starts_with() and ends_with() are computed as the code computes them.   *)
(***************************************************************************)
EXTENDS Integers, Sequences, FiniteSets, TLC

(***************************************************************************)
(* Bounds of the model.                                                    *)
(***************************************************************************)
NumThreads == 2      \* request-handling threads sharing one AppState
MaxCalls == 3        \* load_octree calls issued by the callers in one run
MaxDepth == 3        \* call-stack frames of load_octree that are followed
MaxMapSize == 1      \* largest map_size given to AppState::new
MaxLen == 2          \* longest prefix / key / suffix of the address checks
MaxLevel == 1        \* deepest level of a node of the quadtree's Meta
MaxNodes == 3        \* most nodes in the existence set of a Meta

(***************************************************************************)
(* Strings.                                                                *)
(***************************************************************************)
Slash == "/"

STR_init_id == <<"i", "n", "i", "t", "_", "i", "d">>

\* str::ends_with(char)
ends_with(s, c) == Len(s) > 0 /\ s[Len(s)] = c

\* str::starts_with(char)
starts_with(s, c) == Len(s) > 0 /\ s[1] = c

\* str::starts_with(&str)
starts_with_str(s, p) == Len(s) >= Len(p) /\ SubSeq(s, 1, Len(p)) = p

(***************************************************************************)
(* OctreeKeyParams::get_octree_address: format!("{}{}{}{}{}", prefix,      *)
(* join_prefix, octree_key, join_suffix, suffix).                          *)
(***************************************************************************)
join_prefixAlways(kp) == <<Slash>>

join_prefix(kp) == IF ~ends_with(kp.prefix, Slash) THEN <<Slash>> ELSE <<>>

join_suffix(kp) == IF ~starts_with(kp.suffix, Slash) THEN <<Slash>> ELSE <<>>

get_octree_address(kp, key) ==
    kp.prefix \o join_prefix(kp) \o key \o join_suffix(kp) \o kp.suffix

(***************************************************************************)
(* The state.                                                              *)
(*   AppState (state.rs 35-42), fixed by AppState::new:                    *)
(*     init_octree_id, key_params, map_size (the capacity hint);           *)
(*   the shared table and its RwLock:                                      *)
(*     octree_map : set of <<key, handle>> entries,                        *)
(*     readers    : threads holding a read guard,                          *)
(*     writer     : thread holding the write guard, 0 when none;           *)
(*   per thread, the frame of load_octree / insert_octree it is in:        *)
(*     pc, request (the caller's argument), octree_key (the argument of    *)
(*     the innermost frame), depth (recursive frames below the first),     *)
(*     octree (the Arc built by insert_octree, 0 when none), retval (the   *)
(*     Result the call returns);                                           *)
(*   the loader and the reference counts:                                  *)
(*     loader_log : one record per octree_from_directory invocation; a     *)
(*                  handle is the index of the invocation that built it,   *)
(*     strong     : the Arc strong count of each handle;                   *)
(*   what the callers observed:                                            *)
(*     workers (the threads serving requests), calls, writes (inserts a    *)
(*     thread made in its current call), inserted (per key, the handle of  *)
(*     the latest insert), returned (per requested identifier, the handle  *)
(*     its first successful call returned, 0 when none yet).               *)
(*   The address checks and the traversal have state of their own, below.  *)
(***************************************************************************)
VARIABLES init_octree_id, key_params, map_size, octree_map, readers, writer,
          workers, pc, request, octree_key, depth, octree, retval,
          loader_log, strong, calls, writes, inserted, returned,
          address,
          meta, level, matrix_entries, frustum, open, result, tpc, visited,
          disk, unsaved, decoded,
          rects, point, contained, isect, relation

cacheVars == <<init_octree_id, key_params, map_size, octree_map, readers,
               writer, workers, pc, request, octree_key, depth, octree,
               retval, loader_log, strong, calls, writes, inserted, returned>>

\* The state of the traversal: the Meta that is queried, the arguments of
\* get_nodes_for_level (the target level, the entries of the view matrix),
\* its locals frustum, open and result, its position tpc, and the ids of
\* the nodes popped so far.
treeVars == <<meta, level, matrix_entries, frustum, open, result, tpc,
              visited>>

\* The state of the persisted Meta: the content of the file, the Meta that
\* to_disk is called on, and what from_disk gave.
protoVars == <<disk, unsaved, decoded>>

\* The state of the Web Mercator rectangles: two rectangles, a point, what
\* contains said of the point for each, their intersectors and the relation
\* intersect gave.
geoVars == <<rects, point, contained, isect, relation>>

\* The state outside the cache.
otherVars == <<address, treeVars, protoVars, geoVars>>

vars == <<cacheVars, otherVars>>

Threads == 1 .. NumThreads

KEY_a == <<"a">>

KEY_init_id2 == <<"i", "n", "i", "t", "_", "i", "d", "2">>

\* The identifiers the callers ask for.
RequestKeys == {STR_init_id, KEY_a, KEY_init_id2}

\* The identifiers AppState::new is given as octree_id.
DefaultIds == {KEY_a, STR_init_id}

\* The prefix / suffix pairs AppState::new is given.
KeyParamsChoices ==
    { [prefix |-> <<"p">>, suffix |-> <<"/", "s">>] }

NoResult == [ok |-> FALSE, val |-> 0, err |-> "none"]

Ok(h) == [ok |-> TRUE, val |-> h, err |-> "none"]

Err(e) == [ok |-> FALSE, val |-> 0, err |-> e]

\* load_octree's test for the initial octree.
IsAliasPrefixOnly(key) == starts_with_str(key, STR_init_id)

IsAlias(key) == Len(key) = 7 /\ starts_with_str(key, STR_init_id)

\* HashMap::get: the handle stored under key, 0 for None.
MapGetNone(m, key) == 0

MapGet(m, key) ==
    IF \E e \in m : e[1] = key
    THEN (CHOOSE e \in m : e[1] = key)[2]
    ELSE 0

MapKeys(m) == {e[1] : e \in m}

\* HashMap::insert: the entry of key is replaced, the others stay.
HashMapInsertKeepOld(m, key, h) ==
    IF \E e \in m : e[1] = key THEN m ELSE m \cup {<<key, h>>}

HashMapInsertEvict(m, key, h) ==
    IF Cardinality(MapKeys(m) \cup {key}) > map_size /\ m # {}
    THEN {e \in m : e # (CHOOSE x \in m : TRUE) /\ e[1] # key} \cup {<<key, h>>}
    ELSE {e \in m : e[1] # key} \cup {<<key, h>>}

HashMapInsert(m, key, h) == {e \in m : e[1] # key} \cup {<<key, h>>}

\* Arc::clone / drop on the strong counts; handle 0 is "no handle".
ArcClone(s, h) == [s EXCEPT ![h] = @ + 1]

ArcDrop(s, h) == IF h = 0 THEN s ELSE [s EXCEPT ![h] = @ - 1]

(***************************************************************************)
(* AppState::new.                                                          *)
(***************************************************************************)
CacheInit(ws, ids, kps, sizes) ==
    /\ init_octree_id \in ids
    /\ key_params \in kps
    /\ map_size \in sizes
    /\ octree_map = {}
    /\ readers = {}
    /\ writer = 0
    /\ workers = ws
    /\ pc = [t \in Threads |-> "idle"]
    /\ request = [t \in Threads |-> <<>>]
    /\ octree_key = [t \in Threads |-> <<>>]
    /\ depth = [t \in Threads |-> 0]
    /\ octree = [t \in Threads |-> 0]
    /\ retval = [t \in Threads |-> NoResult]
    /\ loader_log = <<>>
    /\ strong = <<>>
    /\ calls = 0
    /\ writes = [t \in Threads |-> 0]
    /\ inserted = [key \in RequestKeys |-> 0]
    /\ returned = [key \in RequestKeys |-> 0]

(***************************************************************************)
(* load_octree, one action per step of a thread.                           *)
(***************************************************************************)
\* A caller invokes load_octree(octree_id).
Call(t, key) ==
    /\ t \in workers
    /\ pc[t] = "idle"
    /\ calls < MaxCalls
    /\ calls' = calls + 1
    /\ request' = [request EXCEPT ![t] = key]
    /\ octree_key' = [octree_key EXCEPT ![t] = key]
    /\ depth' = [depth EXCEPT ![t] = 0]
    /\ octree' = [octree EXCEPT ![t] = 0]
    /\ retval' = [retval EXCEPT ![t] = NoResult]
    /\ writes' = [writes EXCEPT ![t] = 0]
    /\ pc' = [pc EXCEPT ![t] = "entry"]
    /\ UNCHANGED <<init_octree_id, key_params, map_size, octree_map, readers,
                   writer, workers, loader_log, strong, inserted, returned,
                   otherVars>>

\* "taking care of initial octree": return self.load_octree(&init_octree_id).
AliasRecurse(t) ==
    /\ pc[t] = "entry"
    /\ IsAlias(octree_key[t])
    /\ depth[t] < MaxDepth
    /\ octree_key' = [octree_key EXCEPT ![t] = init_octree_id]
    /\ depth' = [depth EXCEPT ![t] = @ + 1]
    /\ UNCHANGED <<init_octree_id, key_params, map_size, octree_map, readers,
                   writer, workers, pc, request, octree, retval, loader_log,
                   strong, calls, writes, inserted, returned, otherVars>>

\* self.octree_map.read().unwrap(): waits while a writer holds the lock.
ReadLock(t) ==
    /\ pc[t] = "entry"
    /\ ~IsAlias(octree_key[t])
    /\ writer = 0
    /\ readers' = readers \cup {t}
    /\ pc' = [pc EXCEPT ![t] = "lookup"]
    /\ UNCHANGED <<init_octree_id, key_params, map_size, octree_map, writer,
                   workers, request, octree_key, depth, octree, retval,
                   loader_log, strong, calls, writes, inserted, returned,
                   otherVars>>

\* map.get(octree_key) is Some(tree): return Ok(Arc::clone(&tree)); the read
\* guard is dropped on the way out.
LookupHit(t) ==
    /\ pc[t] = "lookup"
    /\ MapGet(octree_map, octree_key[t]) # 0
    /\ retval' = [retval EXCEPT ![t] = Ok(MapGet(octree_map, octree_key[t]))]
    /\ strong' = ArcClone(strong, MapGet(octree_map, octree_key[t]))
    /\ readers' = readers \ {t}
    /\ pc' = [pc EXCEPT ![t] = "done"]
    /\ UNCHANGED <<init_octree_id, key_params, map_size, octree_map, writer,
                   workers, request, octree_key, depth, octree, loader_log,
                   calls, writes, inserted, returned, otherVars>>

\* map.get(octree_key) is None: the block ends, the read guard is dropped,
\* and insert_octree is entered.
LookupMissKeepGuard(t) ==
    /\ pc[t] = "lookup"
    /\ MapGet(octree_map, octree_key[t]) = 0
    /\ pc' = [pc EXCEPT ![t] = "load"]
    /\ UNCHANGED <<init_octree_id, key_params, map_size, octree_map, readers,
                   writer, workers, request, octree_key, depth, octree, retval,
                   loader_log, strong, calls, writes, inserted, returned,
                   otherVars>>

LookupMiss(t) ==
    /\ pc[t] = "lookup"
    /\ MapGet(octree_map, octree_key[t]) = 0
    /\ readers' = readers \ {t}
    /\ pc' = [pc EXCEPT ![t] = "load"]
    /\ UNCHANGED <<init_octree_id, key_params, map_size, octree_map, writer,
                   workers, request, octree_key, depth, octree, retval,
                   loader_log, strong, calls, writes, inserted, returned,
                   otherVars>>

(***************************************************************************)
(* insert_octree.                                                          *)
(***************************************************************************)
\* The record of one octree_from_directory(&addr) invocation.
Loaded(t, ok) ==
    [key |-> octree_key[t],
     addr |-> get_octree_address(key_params, octree_key[t]),
     ok |-> ok]

\* octree_from_directory(&addr) succeeds: Arc::from builds a new handle.
LoadOk(t) ==
    /\ pc[t] = "load"
    /\ loader_log' = Append(loader_log, Loaded(t, TRUE))
    /\ strong' = Append(strong, 1)
    /\ octree' = [octree EXCEPT ![t] = Len(loader_log) + 1]
    /\ pc' = [pc EXCEPT ![t] = "wlock"]
    /\ UNCHANGED <<init_octree_id, key_params, map_size, octree_map, readers,
                   writer, workers, request, octree_key, depth, retval, calls,
                   writes, inserted, returned, otherVars>>

\* octree_from_directory(&addr) fails: `?` returns the error at once.
LoadFailPoison(t) ==
    /\ pc[t] = "load"
    /\ loader_log' = Append(loader_log, Loaded(t, FALSE))
    /\ strong' = Append(strong, 0)
    /\ retval' = [retval EXCEPT ![t] = Err("LoadFailure")]
    /\ octree_map' = octree_map \cup {<<octree_key[t], 0>>}
    /\ writes' = [writes EXCEPT ![t] = @ + 1]
    /\ pc' = [pc EXCEPT ![t] = "done"]
    /\ UNCHANGED <<init_octree_id, key_params, map_size, readers,
                   writer, workers, request, octree_key, depth, octree, calls,
                   inserted, returned, otherVars>>

LoadFail(t) ==
    /\ pc[t] = "load"
    /\ loader_log' = Append(loader_log, Loaded(t, FALSE))
    /\ strong' = Append(strong, 0)
    /\ retval' = [retval EXCEPT ![t] = Err("LoadFailure")]
    /\ pc' = [pc EXCEPT ![t] = "done"]
    /\ UNCHANGED <<init_octree_id, key_params, map_size, octree_map, readers,
                   writer, workers, request, octree_key, depth, octree, calls,
                   writes, inserted, returned, otherVars>>

\* self.octree_map.write().unwrap(): waits for all guards to be dropped.
WriteLock(t) ==
    /\ pc[t] = "wlock"
    /\ readers = {}
    /\ writer = 0
    /\ writer' = t
    /\ pc' = [pc EXCEPT ![t] = "insert"]
    /\ UNCHANGED <<init_octree_id, key_params, map_size, octree_map, readers,
                   workers, request, octree_key, depth, octree, retval,
                   loader_log, strong, calls, writes, inserted, returned,
                   otherVars>>

\* wmap.insert(octree_key.clone(), Arc::clone(&octree)): the replaced value,
\* if any, is dropped; the write guard is dropped; Ok(octree) is returned.
Insert(t) ==
    /\ pc[t] = "insert"
    /\ octree_map' = HashMapInsert(octree_map, octree_key[t], octree[t])
    /\ strong' = LET replaced == octree_map \ octree_map'
                     added == octree_map' \ octree_map
                     afterAdd == IF added = {} THEN strong
                                 ELSE ArcClone(strong, octree[t])
                 IN IF replaced = {} THEN afterAdd
                    ELSE ArcDrop(afterAdd, (CHOOSE e \in replaced : TRUE)[2])
    /\ writer' = 0
    /\ retval' = [retval EXCEPT ![t] = Ok(octree[t])]
    /\ writes' = [writes EXCEPT ![t] = @ + 1]
    /\ inserted' = [inserted EXCEPT ![octree_key[t]] = octree[t]]
    /\ pc' = [pc EXCEPT ![t] = "done"]
    /\ UNCHANGED <<init_octree_id, key_params, map_size, readers, workers,
                   request, octree_key, depth, octree, loader_log, calls,
                   returned, otherVars>>

\* The caller, who held the returned handle since the call returned (pc =
\* "done"), drops it; the frame is gone.
Return(t) ==
    /\ pc[t] = "done"
    /\ returned' = IF retval[t].ok /\ returned[request[t]] = 0
                   THEN [returned EXCEPT ![request[t]] = retval[t].val]
                   ELSE returned
    /\ strong' = ArcDrop(strong, retval[t].val)
    /\ pc' = [pc EXCEPT ![t] = "idle"]
    /\ request' = [request EXCEPT ![t] = <<>>]
    /\ octree_key' = [octree_key EXCEPT ![t] = <<>>]
    /\ depth' = [depth EXCEPT ![t] = 0]
    /\ octree' = [octree EXCEPT ![t] = 0]
    /\ retval' = [retval EXCEPT ![t] = NoResult]
    /\ writes' = [writes EXCEPT ![t] = 0]
    /\ UNCHANGED <<init_octree_id, key_params, map_size, octree_map, readers,
                   writer, workers, loader_log, calls, inserted, otherVars>>

CacheNext ==
    \/ \E t \in Threads, key \in RequestKeys : Call(t, key)
    \/ \E t \in Threads : AliasRecurse(t)
    \/ \E t \in Threads : ReadLock(t)
    \/ \E t \in Threads : LookupHit(t)
    \/ \E t \in Threads : LookupMiss(t)
    \/ \E t \in Threads : LoadOk(t)
    \/ \E t \in Threads : LoadFail(t)
    \/ \E t \in Threads : WriteLock(t)
    \/ \E t \in Threads : Insert(t)
    \/ \E t \in Threads : Return(t)

(***************************************************************************)
(* The address checks: get_octree_address applied to every prefix, key and *)
(* suffix of at most MaxLen characters over the alphabet {"/", "a"}.       *)
(***************************************************************************)
Alphabet == {Slash, "a"}

Strings == UNION {[1 .. n -> Alphabet] : n \in 0 .. MaxLen}

AllKeyParams == [prefix : Strings, suffix : Strings]

\* One call of key_params.get_octree_address(key); the Ok value is kept.
GetAddress(key) ==
    /\ address = <<>>
    /\ address' = [key |-> key, addr |-> get_octree_address(key_params, key)]
    /\ UNCHANGED <<cacheVars, treeVars, protoVars, geoVars>>

AddrNext == \E key \in Strings : GetAddress(key)

(***************************************************************************)
(* The quadtree of xray: node ids, bounding rectangles, the frustum test.  *)
(* Lengths are integers: the root rectangle has edge 2^(MaxLevel+1), so    *)
(* that the rectangle of every node the traversal can pop has an integer   *)
(* edge; z is in tenths (the slab -0.1 .. 0.1 is -1 .. 1).                 *)
(***************************************************************************)
RECURSIVE Pow(_, _)
Pow(b, n) == IF n = 0 THEN 1 ELSE b * Pow(b, n - 1)

RootEdge == Pow(2, MaxLevel + 1)

TILE_SIZE == 256

\* NodeId::new(level, index) and NodeId::root().
NodeId(l, i) == [level |-> l, index |-> i]

RootId == NodeId(0, 0)

\* Every id down to level MaxLevel: index < 4^level.
NodeIds ==
    {id \in [level : 0 .. MaxLevel, index : 0 .. Pow(4, MaxLevel) - 1] :
        id.index < Pow(4, id.level)}

RECURSIVE Digits(_, _)
\* The n base-4 digits of i, most significant first.
Digits(i, n) ==
    IF n = 0 THEN <<>>
    ELSE Append(Digits(i \div 4, n - 1), <<"0", "1", "2", "3">>[(i % 4) + 1])

\* NodeId::to_string: "r" followed by one digit per level.
NodeIdToString(id) == <<"r">> \o Digits(id.index, id.level)

\* Rect::new(min, edge_length), Rect::max().
Rect(x, y, e) == [min_x |-> x, min_y |-> y, edge_length |-> e]

\* Node::from_node_id_and_root_bounding_rect(NodeId::root(), rect).
RootNode(rect) == [id |-> RootId, bounding_rect |-> rect]

\* Node::get_child(ChildIndex::from_u8(i)): the id of the i-th child and
\* the i-th quadrant of the rectangle.
GetChild(node, i) ==
    LET half == node.bounding_rect.edge_length \div 2
    IN [id |-> NodeId(node.id.level + 1, node.id.index * 4 + i),
        bounding_rect |->
            Rect(node.bounding_rect.min_x + (IF i \div 2 = 1 THEN half ELSE 0),
                 node.bounding_rect.min_y + (IF i % 2 = 1 THEN half ELSE 0),
                 half)]

\* Aabb3::new(Point3(min.x, min.y, -0.1), Point3(max.x, max.y, 0.1)).
Aabb(rect) ==
    [min |-> <<rect.min_x, rect.min_y, -1>>,
     max |-> <<rect.min_x + rect.edge_length,
               rect.min_y + rect.edge_length, 1>>]

\* Matrix4::new takes the entries column by column: row i (0 .. 3) of the
\* matrix built from the 16 entries e.
Row(e, i) == <<e[i + 1], e[i + 5], e[i + 9], e[i + 13]>>

\* Plane::from_vector4_alt(v): the plane n . p = d with n = (v.x, v.y, v.z)
\* and d = -v.w. The normal is left as it is: dividing n and d by the
\* length of n changes the sign of no distance.
Plane(v) == [n |-> <<v[1], v[2], v[3]>>, d |-> -v[4]]

\* As from_matrix4, but a plane without a normal is kept.
from_matrix4Unchecked(e) ==
    LET r3 == Row(e, 3)
        plus(i) == Plane([k \in 1 .. 4 |-> r3[k] + Row(e, i)[k]])
        minus(i) == Plane([k \in 1 .. 4 |-> r3[k] - Row(e, i)[k]])
    IN <<plus(0), minus(0), plus(1), minus(1), plus(2), minus(2)>>

\* Frustum::from_matrix4: the planes left, right, bottom, top, near, far
\* are row 3 plus or minus rows 0, 1, 2; None (the empty tuple) when a
\* plane has no normal to normalize.
from_matrix4(e) ==
    LET r3 == Row(e, 3)
        plus(i) == Plane([k \in 1 .. 4 |-> r3[k] + Row(e, i)[k]])
        minus(i) == Plane([k \in 1 .. 4 |-> r3[k] - Row(e, i)[k]])
        planes == <<plus(0), minus(0), plus(1), minus(1), plus(2), minus(2)>>
    IN IF \E k \in 1 .. 6 : planes[k].n = <<0, 0, 0>> THEN <<>> ELSE planes

\* The planes of a frustum.
Planes(f) == {f[k] : k \in 1 .. Len(f)}

\* A point against a plane: In in front, Out behind, Cross on it.
PointRelation(p, plane) ==
    LET dist == plane.n[1] * p[1] + plane.n[2] * p[2] + plane.n[3] * p[3]
                    - plane.d
    IN IF dist > 0 THEN "In" ELSE IF dist < 0 THEN "Out" ELSE "Cross"

\* A box against a plane: the relation its corners share, else Cross.
BoxRelation(box, plane) ==
    LET rels == {PointRelation(<<x, y, z>>, plane) :
                    x \in {box.min[1], box.max[1]},
                    y \in {box.min[2], box.max[2]},
                    z \in {box.min[3], box.max[3]}}
    IN IF Cardinality(rels) = 1 THEN CHOOSE r \in rels : TRUE ELSE "Cross"

\* frustum.contains(&aabb): Out if the box is behind a plane, else Cross if
\* it crosses one, else In.
FrustumContains(f, box) ==
    LET rels == {BoxRelation(box, plane) : plane \in Planes(f)}
    IN IF "Out" \in rels THEN "Out"
       ELSE IF "Cross" \in rels THEN "Cross" ELSE "In"

(***************************************************************************)
(* Meta::get_nodes_for_level, one action per step.                         *)
(***************************************************************************)
\* The NodeMeta pushed for a node.
NodeMeta(node) ==
    [id |-> NodeIdToString(node.id),
     bounding_rect |-> node.bounding_rect]

\* The test of line 150: the node is skipped, with all below it.
SkippedNoExistence(node) ==
    FrustumContains(frustum, Aabb(node.bounding_rect)) = "Out"

\* As the test of line 150, but a box that crosses a plane is skipped too.
SkippedOnCross(node) ==
    \/ FrustumContains(frustum, Aabb(node.bounding_rect)) # "In"
    \/ node.id \notin meta.nodes

Skipped(node) ==
    \/ FrustumContains(frustum, Aabb(node.bounding_rect)) = "Out"
    \/ node.id \notin meta.nodes

\* The test of line 154.
AtLevelAny(node) == node.id.level <= level

\* As the test of line 154, one level late.
AtLevelBelow(node) == node.id.level = level + 1

AtLevel(node) == node.id.level = level

Top == open[Len(open)]

Popped == SubSeq(open, 1, Len(open) - 1)

\* The call with a matrix that has not 4 * 4 entries: Err.
ErrLength ==
    /\ tpc = "idle"
    /\ Len(matrix_entries) # 4 * 4
    /\ tpc' = "failed"
    /\ UNCHANGED <<cacheVars, address, protoVars, geoVars, meta, level,
                   matrix_entries, frustum, open, result, visited>>

\* The call with 16 entries that give no frustum: Err.
ErrFrustum ==
    /\ tpc = "idle"
    /\ Len(matrix_entries) = 4 * 4
    /\ from_matrix4(matrix_entries) = <<>>
    /\ tpc' = "failed"
    /\ UNCHANGED <<cacheVars, address, protoVars, geoVars, meta, level,
                   matrix_entries, frustum, open, result, visited>>

\* The call: the frustum is built, open holds the root node.
Begin ==
    /\ tpc = "idle"
    /\ Len(matrix_entries) = 4 * 4
    /\ from_matrix4(matrix_entries) # <<>>
    /\ frustum' = from_matrix4(matrix_entries)
    /\ open' = <<RootNode(meta.bounding_rect)>>
    /\ result' = <<>>
    /\ tpc' = "loop"
    /\ UNCHANGED <<cacheVars, address, protoVars, geoVars, meta, level,
                   matrix_entries, visited>>

\* open.pop() gives a node that is Out or not in self.nodes: continue.
Prune ==
    /\ tpc = "loop"
    /\ open # <<>>
    /\ Skipped(Top)
    /\ open' = Popped
    /\ visited' = Append(visited, Top.id)
    /\ UNCHANGED <<cacheVars, address, protoVars, geoVars, meta, level,
                   matrix_entries, frustum, result, tpc>>

\* open.pop() gives a node of the target level: result.push(NodeMeta).
Emit ==
    /\ tpc = "loop"
    /\ open # <<>>
    /\ ~Skipped(Top)
    /\ AtLevel(Top)
    /\ result' = Append(result, NodeMeta(Top))
    /\ open' = Popped
    /\ visited' = Append(visited, Top.id)
    /\ UNCHANGED <<cacheVars, address, protoVars, geoVars, meta, level,
                   matrix_entries, frustum, tpc>>

\* open.pop() gives a node of another level: its four children are pushed.
PushChildren ==
    /\ tpc = "loop"
    /\ open # <<>>
    /\ ~Skipped(Top)
    /\ ~AtLevel(Top)
    /\ open' = Popped \o [i \in 1 .. 4 |-> GetChild(Top, i - 1)]
    /\ visited' = Append(visited, Top.id)
    /\ UNCHANGED <<cacheVars, address, protoVars, geoVars, meta, level,
                   matrix_entries, frustum, result, tpc>>

\* open is empty: Ok(result).
Finish ==
    /\ tpc = "loop"
    /\ open = <<>>
    /\ tpc' = "returned"
    /\ UNCHANGED <<cacheVars, address, protoVars, geoVars, meta, level,
                   matrix_entries, frustum, open, result,
                   visited>>

TreeNext ==
    ErrLength \/ ErrFrustum \/ Begin \/ Prune \/ Emit \/ PushChildren \/ Finish

\* The Metas: every existence set of at most MaxNodes ids, with a deepest
\* level that no id of the set exceeds (the deepest one present, or
\* MaxLevel).
RECURSIVE SetsUpTo(_, _)
SetsUpTo(U, n) ==
    IF n = 0 THEN {{}}
    ELSE LET smaller == SetsUpTo(U, n - 1)
         IN smaller \cup {S \cup {x} : S \in smaller, x \in U}

DeepestOf(S) ==
    IF S = {} THEN 0
    ELSE CHOOSE l \in 0 .. MaxLevel :
            /\ \E id \in S : id.level = l
            /\ \A id \in S : id.level <= l

Metas ==
    {[nodes |-> S, bounding_rect |-> Rect(0, 0, RootEdge),
      tile_size |-> TILE_SIZE, deepest_level |-> d] :
        S \in SetsUpTo(NodeIds, MaxNodes), d \in {MaxLevel}} \cup
    {[nodes |-> S, bounding_rect |-> Rect(0, 0, RootEdge),
      tile_size |-> TILE_SIZE, deepest_level |-> DeepestOf(S)] :
        S \in SetsUpTo(NodeIds, MaxNodes)}

\* The views: along each axis the view covers the whole root rectangle,
\* its lower part, its upper part, or lies beside it.
Views ==
    {[x_min |-> x[1], x_max |-> x[2], y_min |-> y[1], y_max |-> y[2]] :
        x \in {<<-1, RootEdge + 1>>, <<-1, RootEdge \div 2 - 1>>,
               <<RootEdge \div 2 + 1, RootEdge + 1>>,
               <<RootEdge + 1, RootEdge + 2>>},
        y \in {<<-1, RootEdge + 1>>, <<-1, RootEdge \div 2 - 1>>}}

\* The 16 entries, column by column, of a matrix of the orthographic view v
\* of the slab -0.2 .. 0.2 (a multiple of it, which has the same frustum,
\* so that the entries are integers): x_min < x < x_max, y_min < y < y_max.
OrthoMatrix(v) ==
    LET wx == v.x_max - v.x_min
        wy == v.y_max - v.y_min
    IN <<4 * wy, 0, 0, 0,
         0, 4 * wx, 0, 0,
         0, 0, wx * wy, 0,
         -2 * (v.x_min + v.x_max) * wy, -2 * (v.y_min + v.y_max) * wx, 0,
         2 * wx * wy>>

WholeView ==
    [x_min |-> -1, x_max |-> RootEdge + 1, y_min |-> -1, y_max |-> RootEdge + 1]

\* The matrix_entries given: the matrix of each view, a matrix with an
\* entry too few and one with an entry too many, and the zero matrix.
Matrices ==
    {OrthoMatrix(v) : v \in Views} \cup
    {SubSeq(OrthoMatrix(WholeView), 1, 4 * 4 - 1),
     Append(OrthoMatrix(WholeView), 0),
     [k \in 1 .. 4 * 4 |-> 0]}

\* The state before get_nodes_for_level is called.
TreeStart(metas, levels, matrices) ==
    /\ meta \in metas
    /\ level \in levels
    /\ matrix_entries \in matrices
    /\ frustum = <<>>
    /\ open = <<>>
    /\ result = <<>>
    /\ tpc = "idle"
    /\ visited = <<>>

\* No traversal: the cache and the address checks run on their own.
NoTree == TreeStart({[nodes |-> {}, bounding_rect |-> Rect(0, 0, RootEdge),
                      tile_size |-> TILE_SIZE, deepest_level |-> 0]},
                    {0}, {OrthoMatrix(WholeView)})

(***************************************************************************)
(* The persisted Meta of xray: proto::Meta, from_proto, to_proto, from_disk *)
(* and to_disk. A proto::Meta is a record of its fields; min is the empty  *)
(* tuple when the Rect has no min (a record without a bounding_rect reads  *)
(* as the default Rect: no min, every number 0); nodes is the set of the   *)
(* NodeIds listed.                                                         *)
(***************************************************************************)
CURRENT_VERSION == 3

\* The number of values of a u8: `as u8` keeps a u32 modulo U8.
U8 == 256

AsU8(n) == n % U8

\* proto::Meta::new(): every field has its default.
ProtoNew ==
    [version |-> 0, min |-> <<>>, edge_length |-> 0,
     deprecated_min |-> <<0, 0>>, deprecated_edge_length |-> 0,
     nodes |-> {}, tile_size |-> 0, deepest_level |-> 0]

\* As MinAndEdgeLength, but the current fields are read whether or not the
\* Rect has a min (a Rect without min reads min as (0, 0)).
MinAndEdgeLengthCurrent(p) ==
    IF p.min = <<>> THEN <<0, 0, p.edge_length>>
    ELSE <<p.min[1], p.min[2], p.edge_length>>

\* The (min, edge_length) of from_proto: the current fields when the Rect
\* has a min, else the deprecated ones.
MinAndEdgeLength(p) ==
    IF p.min = <<>>
    THEN <<p.deprecated_min[1], p.deprecated_min[2], p.deprecated_edge_length>>
    ELSE <<p.min[1], p.min[2], p.edge_length>>

\* The Meta from_proto builds once the version is accepted.
MetaOfProto(p) ==
    [nodes |-> {NodeId(AsU8(n.level), n.index) : n \in p.nodes},
     bounding_rect |-> Rect(MinAndEdgeLength(p)[1], MinAndEdgeLength(p)[2],
                            MinAndEdgeLength(p)[3]),
     tile_size |-> p.tile_size,
     deepest_level |-> AsU8(p.deepest_level)]

\* What a call gave: nothing yet, Ok(meta), Err(..), or a panic.
Outcome(kind, p, m) == [kind |-> kind, proto |-> p, meta |-> m]

\* Meta::from_proto: version 2 and CURRENT_VERSION are read, any other
\* version panics.
from_proto(p) ==
    IF p.version = 2 \/ p.version = CURRENT_VERSION
    THEN Outcome("Ok", p, MetaOfProto(p))
    ELSE Outcome("panic", p, MetaOfProto(ProtoNew))

\* Meta::to_proto: the bounding rectangle is not set.
to_proto(m) ==
    [ProtoNew EXCEPT
        !.deepest_level = m.deepest_level,
        !.tile_size = m.tile_size,
        !.version = CURRENT_VERSION,
        !.nodes = {[level |-> id.level, index |-> id.index] : id \in m.nodes}]

\* The file: missing, bytes that do not parse, or an encoded proto::Meta.
File(state, p) == [state |-> state, proto |-> p]

\* Meta::from_disk: the read fails, the parse fails, or from_proto is
\* applied to the record parsed.
from_disk(f) ==
    IF f.state = "missing" THEN Outcome("ErrRead", ProtoNew, MetaOfProto(ProtoNew))
    ELSE IF f.state = "garbage"
         THEN Outcome("ErrParse", ProtoNew, MetaOfProto(ProtoNew))
         ELSE from_proto(f.proto)

\* A call of Meta::from_disk(filename).
FromDisk ==
    /\ decoded.kind = "none"
    /\ decoded' = from_disk(disk)
    /\ UNCHANGED <<cacheVars, address, treeVars, geoVars, disk, unsaved>>

\* A call of unsaved.to_disk(filename) that creates and writes the file.
ToDisk ==
    /\ decoded.kind = "none"
    /\ disk # File("meta", to_proto(unsaved))
    /\ disk' = File("meta", to_proto(unsaved))
    /\ UNCHANGED <<cacheVars, address, treeVars, geoVars, unsaved, decoded>>

ProtoNext == FromDisk \/ ToDisk

\* The versions, levels and rectangles of the records on disk.
MaxVersion == 4

ProtoLevels == {0, 1, U8 + 1}

ProtoNodeSets ==
    {{}, {[level |-> 0, index |-> 0]},
     {[level |-> 0, index |-> 0], [level |-> 1, index |-> 3]},
     {[level |-> U8 + 1, index |-> 3]}}

Protos ==
    [version : 1 .. MaxVersion,
     min : {<<>>, <<1, 1>>},
     edge_length : {0, RootEdge},
     deprecated_min : {<<0, 0>>, <<2, 2>>},
     deprecated_edge_length : {0, 2},
     nodes : ProtoNodeSets,
     tile_size : {TILE_SIZE},
     deepest_level : ProtoLevels]

Files ==
    {File("missing", ProtoNew), File("garbage", ProtoNew)} \cup
    {File("meta", p) : p \in Protos}

\* The Metas that are saved: one built for a quadtree, one read from a file.
SavedMetas ==
    {[nodes |-> S, bounding_rect |-> r, tile_size |-> TILE_SIZE,
      deepest_level |-> DeepestOf(S)] :
        S \in {{}, {RootId, NodeId(1, 3)}},
        r \in {Rect(0, 0, RootEdge), Rect(0, 0, 0)}}

ProtoStart(files, metas) ==
    /\ disk \in files
    /\ unsaved \in metas
    /\ decoded = Outcome("none", ProtoNew, MetaOfProto(ProtoNew))

\* No file is read or written.
NoProto ==
    ProtoStart({File("missing", ProtoNew)}, {MetaOfProto(ProtoNew)})

(***************************************************************************)
(* The Web Mercator rectangle of point_viewer: WebMercatorRect, its        *)
(* corners and intersector, contains. Coordinates are integers: a Web      *)
(* Mercator coordinate is a pair <<x, y>> of one zoom level, x growing to  *)
(* the east and y to the south. The 3-D frame has its first axis to the    *)
(* east, its second to the north and its third up (right-handed, as east,  *)
(* north and up are in the earth-centered frame), and the surface of       *)
(* elevation e is curved as the earth's is: it falls away from the origin  *)
(* with the square of the distance. Vectors are not normalized: dividing   *)
(* a vector by its length changes neither its direction nor a sign.        *)
(***************************************************************************)
min_elevation_m == -1000

max_elevation_m == 9000

\* nalgebra::inf / nalgebra::sup of two Vector2: component by component.
Inf(a, b) == <<IF a[1] <= b[1] THEN a[1] ELSE b[1],
               IF a[2] <= b[2] THEN a[2] ELSE b[2]>>

Sup(a, b) == <<IF a[1] >= b[1] THEN a[1] ELSE b[1],
               IF a[2] >= b[2] THEN a[2] ELSE b[2]>>

\* WebMercatorRect::from_zoomed_coordinates(min, max, z), the Some value.
from_zoomed_coordinates(a, b) ==
    [north_west |-> Inf(a, b), south_east |-> Sup(a, b)]

\* WebMercatorCoord::to_lat_lng and WebMercatorCoord::from_lat_lng: the
\* latitude grows to the north, against y.
to_lat_lng(c) == [lat |-> -c[2], lng |-> c[1]]

from_lat_lng(ll) == <<ll.lng, -ll.lat>>

\* ECEF::from(WGS84::new(lat, lng, elevation)) and WGS84::from(ECEF).
EcefOfWgs84(lat, lng, elevation) ==
    <<lng, lat, elevation - lng * lng - lat * lat>>

Wgs84OfEcef(p) == [lat |-> p[2], lng |-> p[1]]

\* As ecef_point, on an earth that is flat.
ecef_pointFlat(lat, lng, elevation) == <<lng.lng, lat.lat, elevation>>

\* The closure ecef_point of compute_corners: the latitude of lat, the
\* longitude of lng.
ecef_point(lat, lng, elevation) == EcefOfWgs84(lat.lat, lng.lng, elevation)

\* WebMercatorRect::compute_corners: NW, NE, SE, SW down, then up.
compute_corners(rect) ==
    LET n_w == to_lat_lng(rect.north_west)
        s_e == to_lat_lng(rect.south_east)
    IN <<ecef_point(n_w, n_w, min_elevation_m),
         ecef_point(n_w, s_e, min_elevation_m),
         ecef_point(s_e, s_e, min_elevation_m),
         ecef_point(s_e, n_w, min_elevation_m),
         ecef_point(n_w, n_w, max_elevation_m),
         ecef_point(n_w, s_e, max_elevation_m),
         ecef_point(s_e, s_e, max_elevation_m),
         ecef_point(s_e, n_w, max_elevation_m)>>

Sub3(a, b) == <<a[1] - b[1], a[2] - b[2], a[3] - b[3]>>

Dot3(a, b) == a[1] * b[1] + a[2] * b[2] + a[3] * b[3]

Cross3(a, b) ==
    <<a[2] * b[3] - a[3] * b[2],
      a[3] * b[1] - a[1] * b[3],
      a[1] * b[2] - a[2] * b[1]>>

\* WebMercatorRect::intersector. corners[k] of the code is c[k + 1] here,
\* edges[k] is e[k + 1].
intersector(rect) ==
    LET c == compute_corners(rect)
        e == <<Sub3(c[2], c[1]), Sub3(c[3], c[2]), Sub3(c[4], c[3]),
               Sub3(c[1], c[4]),
               Sub3(c[6], c[5]), Sub3(c[7], c[6]), Sub3(c[8], c[7]),
               Sub3(c[5], c[8]),
               Sub3(c[5], c[1]), Sub3(c[6], c[2]), Sub3(c[7], c[3]),
               Sub3(c[8], c[4])>>
    IN [corners |-> c,
        edges |-> e,
        face_normals |->
            <<Cross3(e[1], e[9]), Cross3(e[2], e[10]), Cross3(e[3], e[11]),
              Cross3(e[4], e[12]), Cross3(e[2], e[1]), Cross3(e[6], e[5])>>]

\* nalgebra::partial_le / partial_lt of two WebMercatorCoords.
partial_le(a, b) == a[1] <= b[1] /\ a[2] <= b[2]

partial_lt(a, b) == a[1] < b[1] /\ a[2] < b[2]

\* As contains, with the south-east bound included.
containsClosed(rect, p) ==
    LET wmc == from_lat_lng(Wgs84OfEcef(p))
    IN partial_le(rect.north_west, wmc) /\ partial_le(wmc, rect.south_east)

\* PointCulling::contains for WebMercatorRect.
contains(rect, p) ==
    LET wmc == from_lat_lng(Wgs84OfEcef(p))
    IN partial_le(rect.north_west, wmc) /\ partial_lt(wmc, rect.south_east)

\* The corners of the six faces N, E, S, W, down, up, as compute_corners
\* and intersector name them: a corner on the face, one off it.
OnFace == <<1, 2, 3, 4, 1, 5>>

OffFace == <<3, 1, 1, 2, 5, 1>>

FaceCorners ==
    <<{1, 2, 5, 6}, {2, 3, 6, 7}, {3, 4, 7, 8}, {4, 1, 8, 5},
      {1, 2, 3, 4}, {5, 6, 7, 8}>>

Sgn(x) == IF x > 0 THEN 1 ELSE IF x < 0 THEN -1 ELSE 0

\* The projections of the 8 corners on an axis, their least and greatest.
Projections(i, axis) == {Dot3(i.corners[k], axis) : k \in 1 .. 8}

SetMin(S) == CHOOSE x \in S : \A y \in S : x <= y

SetMax(S) == CHOOSE x \in S : \A y \in S : x >= y

\* The candidate axes: the face normals of both and the cross products of
\* an edge of one and an edge of the other that are not parallel.
Axes(a, b) ==
    {a.face_normals[f] : f \in 1 .. 6} \cup
    {b.face_normals[f] : f \in 1 .. 6} \cup
    ({Cross3(a.edges[j], b.edges[k]) : j, k \in 1 .. 12} \ {<<0, 0, 0>>})

\* The intervals of the two on the axis are disjoint.
Separates(axis, a, b) ==
    \/ SetMax(Projections(a, axis)) < SetMin(Projections(b, axis))
    \/ SetMax(Projections(b, axis)) < SetMin(Projections(a, axis))

\* p lies within the half-space of face f of a: on the plane of the face or
\* on the side of it where the rest of a is.
Within(a, f, p) ==
    LET n == a.face_normals[f]
        c == a.corners[OnFace[f]]
    IN Sgn(Dot3(n, Sub3(p, c))) * Sgn(Dot3(n, Sub3(a.corners[OffFace[f]], c)))
          >= 0

\* Every corner of b lies within the half-space of every face of a.
Encloses(a, b) ==
    \A f \in 1 .. 6 : \A k \in 1 .. 8 : Within(a, f, b.corners[k])

\* Intersector::intersect: Out when an axis separates the two, In when one
\* encloses the other, else Cross.
intersect(a, b) ==
    IF \E axis \in Axes(a, b) : Separates(axis, a, b) THEN "Out"
    ELSE IF Encloses(a, b) \/ Encloses(b, a) THEN "In"
    ELSE "Cross"

\* rect.contains(point) for each of the two rectangles.
Contains(p) ==
    /\ contained = <<>>
    /\ isect = <<>>
    /\ point' = p
    /\ contained' = <<contains(rects[1], p), contains(rects[2], p)>>
    /\ UNCHANGED <<cacheVars, address, treeVars, protoVars, rects, isect,
                   relation>>

\* rect.intersector() for each of the two rectangles.
Intersector ==
    /\ contained = <<>>
    /\ isect = <<>>
    /\ isect' = <<intersector(rects[1]), intersector(rects[2])>>
    /\ UNCHANGED <<cacheVars, address, treeVars, protoVars, rects, point,
                   contained, relation>>

\* isect[1].intersect(&isect[2]).
Intersect ==
    /\ isect # <<>>
    /\ relation = "none"
    /\ relation' = intersect(isect[1], isect[2])
    /\ UNCHANGED <<cacheVars, address, treeVars, protoVars, rects, point,
                   contained, isect>>

\* The zoomed coordinates go from 1 to MaxCoord; a rectangle is given by
\* two opposite corners, here its north-east and its south-west one.
MaxCoord == 6

Intervals == {<<a, b>> : a \in 1 .. MaxCoord, b \in 1 .. MaxCoord} \cap
             {i \in (1 .. MaxCoord) \X (1 .. MaxCoord) : i[1] < i[2]}

\* From north to south the rectangles span one of four ranges, which are
\* apart, touch, overlap or lie within one another; from west to east any.
YIntervals == {<<1, 3>>, <<4, 5>>, <<2, 6>>, <<3, 4>>}

GeoRects ==
    {from_zoomed_coordinates(<<x[2], y[1]>>, <<x[1], y[2]>>) :
        x \in Intervals, y \in YIntervals}

\* The points: those of elevation 0 above each coordinate.
GeoPoints ==
    {ecef_point(to_lat_lng(<<x, y>>), to_lat_lng(<<x, y>>), 0) :
        x \in 0 .. MaxCoord + 1, y \in 0 .. MaxCoord + 1}

GeoNext ==
    \/ \E p \in GeoPoints : Contains(p)
    \/ Intersector
    \/ Intersect

GeoStart(rs) ==
    /\ rects \in rs \X rs
    /\ point = <<>>
    /\ contained = <<>>
    /\ isect = <<>>
    /\ relation = "none"

\* No WebMercatorRect is built.
NoGeo == GeoStart({from_zoomed_coordinates(<<1, 1>>, <<2, 2>>)})

(***************************************************************************)
(* The specifications.                                                     *)
(***************************************************************************)
\* The cache shared by NumThreads request-handling threads.
Init ==
    /\ CacheInit(Threads, DefaultIds, KeyParamsChoices, {0, MaxMapSize})
    /\ address = <<>>
    /\ NoTree
    /\ NoProto
    /\ NoGeo

Next == CacheNext

Spec == Init /\ [][Next]_vars

\* The threads are scheduled and the loader returns: a thread inside
\* load_octree takes its next step, a lock that stays free is acquired.
\* Nothing makes a caller call, or drop the handle it was given.
FairSpec ==
    /\ Spec
    /\ \A t \in Threads :
          /\ WF_vars(AliasRecurse(t))
          /\ WF_vars(ReadLock(t))
          /\ WF_vars(LookupHit(t) \/ LookupMiss(t))
          /\ WF_vars(LoadOk(t) \/ LoadFail(t))
          /\ WF_vars(WriteLock(t))
          /\ WF_vars(Insert(t))

\* The cache used by a single thread.
SeqInit ==
    /\ CacheInit({1}, DefaultIds, KeyParamsChoices, {0, MaxMapSize})
    /\ address = <<>>
    /\ NoTree
    /\ NoProto
    /\ NoGeo

SeqSpec == SeqInit /\ [][Next]_vars

\* get_octree_address on its own.
AddrInit ==
    /\ CacheInit({}, {KEY_a}, AllKeyParams, {0})
    /\ address = <<>>
    /\ NoTree
    /\ NoProto
    /\ NoGeo

AddrSpec == AddrInit /\ [][AddrNext]_vars

\* get_nodes_for_level on every Meta, target level and view.
TreeInit ==
    /\ CacheInit({}, {KEY_a}, KeyParamsChoices, {0})
    /\ address = <<>>
    /\ TreeStart(Metas, 0 .. MaxLevel + 1, Matrices)
    /\ NoProto
    /\ NoGeo

TreeSpec == TreeInit /\ [][TreeNext]_vars

\* from_disk and to_disk on every file and every Meta saved.
ProtoInit ==
    /\ CacheInit({}, {KEY_a}, KeyParamsChoices, {0})
    /\ address = <<>>
    /\ NoTree
    /\ ProtoStart(Files, SavedMetas)
    /\ NoGeo

ProtoSpec == ProtoInit /\ [][ProtoNext]_vars

\* contains, intersector and intersect on every two rectangles.
GeoInit ==
    /\ CacheInit({}, {KEY_a}, KeyParamsChoices, {0})
    /\ address = <<>>
    /\ NoTree
    /\ NoProto
    /\ GeoStart(GeoRects)

GeoSpec == GeoInit /\ [][GeoNext]_vars

\* get_nodes_for_level runs on: a call that was made takes its next step.
TreeFairSpec == TreeSpec /\ WF_vars(TreeNext)

(***************************************************************************)
(* Definitions shared by the properties of the cache.                      *)
(***************************************************************************)
\* The loader invocations made for the cache key `key`.
LoadsOf(key) == {i \in 1 .. Len(loader_log) : loader_log[i].key = key}

\* No loader invocation for `key` has failed.
LoaderSucceeds(key) == \A i \in LoadsOf(key) : loader_log[i].ok

\* The cache key a requested identifier stands for: the reserved alias
\* "init_id" stands for the configured default, any other identifier for
\* itself.
CacheKeyOf(req) == IF req = STR_init_id THEN init_octree_id ELSE req

\* Thread t's call has returned Ok and the caller holds the handle.
ReturnedOk(t) == pc[t] = "done" /\ retval[t].ok

EntriesOf(key) == {e \in octree_map : e[1] = key}

(***************************************************************************)
(* C1. Single-threaded, with a loader that succeeds for the key: the       *)
(* loader is invoked once on the first request that resolves to a cache    *)
(* key and never again for it, and every later request returns the handle  *)
(* the first one returned.                                                 *)
(***************************************************************************)
C1_LoadOnce ==
    \A key \in RequestKeys :
        LoaderSucceeds(key) =>
            /\ Cardinality(LoadsOf(key)) <= 1
            /\ \A t \in workers :
                 (pc[t] = "done" /\ octree_key[t] = key) =>
                    /\ retval[t].ok
                    /\ LoadsOf(key) = {retval[t].val}
                    /\ \A req \in RequestKeys :
                         (CacheKeyOf(req) = key /\ returned[req] # 0) =>
                            retval[t].val = returned[req]

\* A second request for "a" has returned, after the first one did, and the
\* loader has run once.
C1_Witness ==
    /\ pc[1] = "done"
    /\ request[1] = KEY_a
    /\ returned[KEY_a] # 0
    /\ retval[1] = Ok(returned[KEY_a])
    /\ Cardinality(LoadsOf(KEY_a)) = 1
    /\ calls >= 2

(***************************************************************************)
(* C3. A call with the alias "init_id" re-enters load_octree once, with    *)
(* the default identifier, and never more than one level deep, whatever    *)
(* the configured default identifier is.                                   *)
(***************************************************************************)
C3_AliasDepthOne ==
    \A t \in Threads :
        /\ depth[t] <= 1
        /\ (request[t] = STR_init_id /\ pc[t] \notin {"idle", "entry"}) =>
              depth[t] = 1

(***************************************************************************)
(* C4. Threads that miss on the same key concurrently: every call that     *)
(* returns Ok returns a handle built by a loader invocation for that key's *)
(* address, a handle a caller holds is alive (strong count >= 1) even if   *)
(* the table no longer refers to it, and once all calls have returned the  *)
(* table holds exactly one entry for an inserted key, the handle of the    *)
(* latest insert.                                                          *)
(***************************************************************************)
Quiescent == \A t \in Threads : pc[t] \in {"idle", "done"}

C4_ConcurrentMisses ==
    /\ \A t \in Threads :
         ReturnedOk(t) =>
            /\ retval[t].val \in LoadsOf(octree_key[t])
            /\ loader_log[retval[t].val].ok
            /\ loader_log[retval[t].val].addr =
                 get_octree_address(key_params, octree_key[t])
            /\ strong[retval[t].val] >= 1
    /\ Quiescent =>
         \A key \in RequestKeys :
            IF inserted[key] = 0
            THEN EntriesOf(key) = {}
            ELSE EntriesOf(key) = {<<key, inserted[key]>>}

\* Two threads missed on "a", both loaded and both inserted: each holds its
\* own live handle, and the table holds the later one only.
C4_Witness ==
    /\ ReturnedOk(1) /\ ReturnedOk(2)
    /\ octree_key[1] = KEY_a /\ octree_key[2] = KEY_a
    /\ retval[1].val # retval[2].val
    /\ writes[1] = 1 /\ writes[2] = 1
    /\ MapGet(octree_map, KEY_a) = retval[2].val
    /\ strong[retval[1].val] = 1

(***************************************************************************)
(* C5. A call whose loader fails returns that error, has written nothing   *)
(* to the table, holds no lock, and the step that fails changes neither    *)
(* the table nor the lock.                                                 *)
(***************************************************************************)
FailedCall(t) == pc[t] = "done" /\ ~retval[t].ok

C5_FailureLeavesCache ==
    /\ [](\A t \in Threads :
            FailedCall(t) =>
               /\ retval[t] = Err("LoadFailure")
               /\ writes[t] = 0
               /\ t \notin readers
               /\ writer # t
               /\ \A e \in octree_map : e[2] # 0 /\ loader_log[e[2]].ok)
    /\ [][\A t \in Threads :
            (~FailedCall(t) /\ FailedCall(t)') =>
               /\ octree_map' = octree_map
               /\ readers' = readers
               /\ writer' = writer]_vars

\* The loader has failed for thread 1's key while the table already holds
\* an entry for another key.
C5_Witness ==
    /\ FailedCall(1)
    /\ octree_key[1] = KEY_init_id2
    /\ octree_map # {}
    /\ ~loader_log[Len(loader_log)].ok

(***************************************************************************)
(* C6. A thread executing the loader holds neither the read guard nor the  *)
(* write guard, so a thread that asks for the read lock meanwhile is       *)
(* never kept out by the loading thread.                                   *)
(***************************************************************************)
Loading(t) == pc[t] \in {"load", "wlock"}

C6_LoaderOutsideLock ==
    \A t \in Threads :
        Loading(t) =>
           /\ t \notin readers
           /\ writer # t
           /\ \A u \in Threads :
                (pc[u] = "entry" /\ ~IsAlias(octree_key[u])
                   /\ \A w \in Threads : pc[w] # "insert") =>
                   ENABLED ReadLock(u)

\* While thread 1 loads, thread 2 holds the read guard and hits.
C6_Witness ==
    /\ pc[1] = "load"
    /\ pc[2] = "lookup"
    /\ 2 \in readers
    /\ MapGet(octree_map, octree_key[2]) # 0

(***************************************************************************)
(* C7. Single-threaded: a request for "init_id" and a request for the      *)
(* configured default identifier return the same handle, in either order;  *)
(* any identifier other than the exact string "init_id" is looked up and   *)
(* loaded under its own name.                                              *)
(***************************************************************************)
C7_AliasSameHandle ==
    /\ (returned[STR_init_id] # 0 /\ returned[init_octree_id] # 0) =>
          returned[STR_init_id] = returned[init_octree_id]
    /\ \A t \in workers :
         ReturnedOk(t) =>
            /\ loader_log[retval[t].val].key = CacheKeyOf(request[t])
            /\ \A req \in {STR_init_id, init_octree_id} :
                 (request[t] \in {STR_init_id, init_octree_id} /\ returned[req] # 0)
                    => retval[t].val = returned[req]

\* The default was requested first, the alias second, and a longer
\* identifier starting with "init_id" got a handle of its own.
C7_Witness ==
    /\ init_octree_id = KEY_a
    /\ returned[KEY_a] # 0
    /\ returned[STR_init_id] = returned[KEY_a]
    /\ ReturnedOk(1)
    /\ request[1] = KEY_init_id2
    /\ retval[1].val # returned[KEY_a]

RECURSIVE SlashesEndingAt(_, _)
\* The number of consecutive '/' of s that end at index i.
SlashesEndingAt(s, i) ==
    IF i < 1 \/ s[i] # Slash THEN 0 ELSE 1 + SlashesEndingAt(s, i - 1)

RECURSIVE SlashesStartingAt(_, _)
\* The number of consecutive '/' of s that start at index i.
SlashesStartingAt(s, i) ==
    IF i > Len(s) \/ s[i] # Slash THEN 0 ELSE 1 + SlashesStartingAt(s, i + 1)

\* The separators of s around the join point that follows index i.
SeparatorsAt(s, i) == SlashesEndingAt(s, i) + SlashesStartingAt(s, i + 1)

\* The inputs and the place of the key in the address that was returned:
\* what is left of the address once the suffix and the key are cut off its
\* end is the prefix and its join; the key ends where the suffix and its
\* join begin.
AddrKeyStart ==
    IF starts_with(key_params.suffix, Slash)
    THEN Len(address.addr) - Len(key_params.suffix) - Len(address.key)
    ELSE Len(address.addr) - Len(key_params.suffix) - 1 - Len(address.key)

AddrKeyEnd == AddrKeyStart + Len(address.key)

\* The key is not empty and has no separator at either end; the prefix has
\* at most one separator at its end and the suffix at most one at its start.
PlainJoin ==
    /\ address.key # <<>>
    /\ ~starts_with(address.key, Slash)
    /\ ~ends_with(address.key, Slash)
    /\ SlashesEndingAt(key_params.prefix, Len(key_params.prefix)) <= 1
    /\ SlashesStartingAt(key_params.suffix, 1) <= 1

(***************************************************************************)
(* C2 as stated: for all prefix, key and suffix, each of the two join      *)
(* points of the returned address carries exactly one '/'.                 *)
(***************************************************************************)
C2_OneSeparatorAlways ==
    address # <<>> =>
        /\ SeparatorsAt(address.addr, AddrKeyStart) = 1
        /\ SeparatorsAt(address.addr, AddrKeyEnd) = 1

(***************************************************************************)
(* C2 as amended: the address is prefix, key and suffix in this order,     *)
(* with one '/' added after the prefix iff the prefix does not end with    *)
(* '/' and one '/' added before the suffix iff the suffix does not start   *)
(* with '/'; when the key is not empty and has no '/' at either end, and   *)
(* the prefix and the suffix have at most one '/' at the join, each join   *)
(* point carries exactly one '/'.                                          *)
(***************************************************************************)
C2_OneSeparatorPlainKey ==
    address # <<>> =>
        LET a == address.addr
            p == key_params.prefix
            k == address.key
            x == key_params.suffix
            addedP == IF p # <<>> /\ p[Len(p)] = Slash THEN 0 ELSE 1
            addedS == IF x # <<>> /\ x[1] = Slash THEN 0 ELSE 1
        IN /\ Len(a) = Len(p) + addedP + Len(k) + addedS + Len(x)
           /\ SubSeq(a, 1, Len(p)) = p
           /\ addedP = 1 => a[Len(p) + 1] = Slash
           /\ SubSeq(a, Len(p) + addedP + 1, Len(p) + addedP + Len(k)) = k
           /\ addedS = 1 => a[Len(p) + addedP + Len(k) + 1] = Slash
           /\ SubSeq(a, Len(a) - Len(x) + 1, Len(a)) = x
           /\ AddrKeyStart = Len(p) + addedP
           /\ PlainJoin =>
                 /\ SeparatorsAt(a, AddrKeyStart) = 1
                 /\ SeparatorsAt(a, AddrKeyEnd) = 1

\* prefix "a/" already ends with the separator, suffix "a" does not start
\* with it: "a/" + "a" + "/" + "a".
C2_Witness ==
    /\ address # <<>>
    /\ key_params.prefix = <<"a", Slash>>
    /\ address.key = <<"a">>
    /\ key_params.suffix = <<"a">>
    /\ address.addr = <<"a", Slash, "a", Slash, "a">>
    /\ PlainJoin

(***************************************************************************)
(* Definitions shared by the properties of get_nodes_for_level.            *)
(***************************************************************************)
\* The ids of the NodeMetas in result.
ResultIds == {result[i].id : i \in 1 .. Len(result)}

\* The ids of the existence set, as get_nodes_for_level prints them.
ExistingIds == {NodeIdToString(id) : id \in meta.nodes}

\* The level an id string names: one digit per level after the "r".
LevelOfString(str) == Len(str) - 1

RECURSIVE NodeOf(_)
\* The node of an id: its rectangle is the quadrant of its parent's
\* rectangle that its last digit selects.
NodeOf(id) ==
    IF id.level = 0 THEN RootNode(meta.bounding_rect)
    ELSE GetChild(NodeOf(NodeId(id.level - 1, id.index \div 4)), id.index % 4)

RECURSIVE Lineage(_)
\* An id and its ancestors.
Lineage(id) ==
    IF id.level = 0 THEN {id}
    ELSE {id} \cup Lineage(NodeId(id.level - 1, id.index \div 4))

NotOut(id) ==
    FrustumContains(frustum, Aabb(NodeOf(id).bounding_rect)) # "Out"

\* The premise of C10: the Meta is consistent and the level is one of its.
InMetaRange ==
    /\ \A id \in meta.nodes : id.level <= meta.deepest_level
    /\ level <= meta.deepest_level

(***************************************************************************)
(* C9. get_nodes_for_level never returns a node whose id is not in the     *)
(* existence set, nor a node of another level than the target level, nor   *)
(* two nodes with the same id.                                             *)
(***************************************************************************)
C9_ResultSound ==
    \A i \in 1 .. Len(result) :
        /\ result[i].id \in ExistingIds
        /\ LevelOfString(result[i].id) = level
        /\ \A j \in 1 .. Len(result) : result[j].id = result[i].id => j = i

\* Two nodes of the target level were returned.
C9_Witness ==
    /\ tpc = "returned"
    /\ Len(result) >= 2
    /\ level = 1

(***************************************************************************)
(* C10 as stated: for a consistent Meta and a target level of its range,   *)
(* the ids returned are exactly the ids of the target level that are in    *)
(* the existence set and whose box is not Out.                             *)
(***************************************************************************)
C10_ExactlyExistingNotOut ==
    (tpc = "returned" /\ InMetaRange) =>
        ResultIds = {NodeIdToString(id) :
                        id \in {n \in meta.nodes : n.level = level /\ NotOut(n)}}

(***************************************************************************)
(* C10 as amended: the ids returned are exactly the ids of the target      *)
(* level that are in the existence set together with all their ancestors   *)
(* and for which neither their own box nor the box of an ancestor is Out.  *)
(***************************************************************************)
C10_ExactlyReachableNotOut ==
    (tpc = "returned" /\ InMetaRange) =>
        ResultIds = {NodeIdToString(id) :
                        id \in {n \in meta.nodes :
                                  /\ n.level = level
                                  /\ \A a \in Lineage(n) :
                                        a \in meta.nodes /\ NotOut(a)}}

\* A node is returned, another node of the target level is Out and is not.
C10_Witness ==
    /\ tpc = "returned"
    /\ InMetaRange
    /\ level = 1
    /\ result # <<>>
    /\ \E n \in meta.nodes :
          /\ n.level = level
          /\ RootId \in meta.nodes
          /\ ~NotOut(n)
          /\ NodeIdToString(n) \notin ResultIds

(***************************************************************************)
(* C11. Pruning on Out is sound. The box relation respects nesting (a      *)
(* child's box is Out whenever its parent's is), and get_nodes_for_level   *)
(* returns the same ids as the traversal that descends through every node  *)
(* of the existence set whatever its box, and applies the not-Out test     *)
(* only to the nodes of the target level.                                  *)
(***************************************************************************)
RECURSIVE Unpruned(_)
\* The ids the traversal without the Out-prune on inner nodes reaches from
\* node: absent nodes end the descent, the nodes of the target level are
\* kept when their box is not Out, the children of the others are visited.
Unpruned(node) ==
    IF node.id \notin meta.nodes THEN {}
    ELSE IF node.id.level = level
         THEN IF FrustumContains(frustum, Aabb(node.bounding_rect)) # "Out"
              THEN {NodeIdToString(node.id)} ELSE {}
         ELSE UNION {Unpruned(GetChild(node, i)) : i \in 0 .. 3}

\* A child's box is Out whenever its parent's box is.
RespectsNesting ==
    \A id \in NodeIds :
        id.level > 0 =>
            (~NotOut(NodeId(id.level - 1, id.index \div 4)) => ~NotOut(id))

C11_PruningSound ==
    tpc = "returned" =>
        /\ RespectsNesting
        /\ ResultIds = Unpruned(RootNode(meta.bounding_rect))

\* The root is in the existence set with a child of the target level, and
\* the root's box is Out: a subtree that holds a node of the target level
\* was pruned.
C11_Witness ==
    /\ tpc = "returned"
    /\ level = 1
    /\ RootId \in meta.nodes
    /\ \E n \in meta.nodes : n.level = 1
    /\ ~NotOut(RootId)
    /\ visited = <<RootId>>

(***************************************************************************)
(* C14. get_nodes_for_level fails only for a malformed view transform: a   *)
(* call ends in Err exactly when the matrix has not 16 entries or gives no *)
(* frustum, and then nothing was traversed; for a well-formed matrix the   *)
(* call is in its loop or has returned Ok, whatever the target level, and  *)
(* the loop always has a next step (no step of it can fail).               *)
(***************************************************************************)
\* The matrix has 16 entries and each of the six planes, row 3 plus or
\* minus one of the rows 0 .. 2, has a normal.
WellFormed ==
    /\ Len(matrix_entries) = 16
    /\ \A i \in 0 .. 2 : \A sgn \in {1, -1} :
          \E k \in 1 .. 3 :
             Row(matrix_entries, 3)[k] + sgn * Row(matrix_entries, i)[k] # 0

C14_ErrOnlyMalformed ==
    /\ tpc = "failed" =>
          ~WellFormed /\ visited = <<>> /\ open = <<>> /\ result = <<>>
    /\ tpc \in {"loop", "returned"} => WellFormed
    /\ tpc = "idle" => ENABLED TreeNext
    /\ tpc = "loop" => ENABLED (Prune \/ Emit \/ PushChildren \/ Finish)

\* A call with a level deeper than deepest_level returned Ok after it went
\* down to the children of an existing node.
C14_Witness ==
    /\ tpc = "returned"
    /\ WellFormed
    /\ level > meta.deepest_level
    /\ \A id \in meta.nodes : id.level <= meta.deepest_level
    /\ Len(visited) > 1

(***************************************************************************)
(* C20. The worklist loop of get_nodes_for_level terminates; it visits     *)
(* each node at most once and no node deeper than the target level, and    *)
(* it pushes the four children only of a node that is in the existence     *)
(* set, not Out and above the target level.                                *)
(***************************************************************************)
C20_LoopTerminates ==
    /\ [](\A i, j \in 1 .. Len(visited) : visited[i] = visited[j] => i = j)
    /\ [](\A i \in 1 .. Len(visited) : visited[i].level <= level)
    /\ [][(tpc = "loop" /\ open # <<>> /\ open' # Popped) =>
             /\ Top.id \in meta.nodes
             /\ FrustumContains(frustum, Aabb(Top.bounding_rect)) # "Out"
             /\ Top.id.level < level
             /\ open' = Popped \o [i \in 1 .. 4 |-> GetChild(Top, i - 1)]]_vars
    /\ (tpc = "loop" ~> tpc = "returned")

\* The target level is deeper than every existing node; the children of the
\* root and those of a node of the deepest level were pushed and visited.
C20_Witness ==
    /\ tpc = "returned"
    /\ level = MaxLevel + 1
    /\ Len(visited) >= 9
    /\ result = <<>>

(***************************************************************************)
(* Definitions shared by the properties of the persisted Meta.             *)
(***************************************************************************)
\* from_disk was called on a file that holds a record.
DecodedRecord == decoded.kind # "none" /\ disk.state = "meta"

\* The NodeIds a record lists.
NodesOfRecord(p) == {NodeId(n.level, n.index) : n \in p.nodes}

(***************************************************************************)
(* C12 as stated: decoding a record whose version is neither the current   *)
(* version nor the one before it gives the caller an UnsupportedVersion    *)
(* error, and no call of from_proto / from_disk panics.                    *)
(***************************************************************************)
C12_UnsupportedVersionReported ==
    /\ decoded.kind # "panic"
    /\ (DecodedRecord /\ decoded.proto.version \notin
            {CURRENT_VERSION - 1, CURRENT_VERSION}) =>
          decoded.kind = "ErrUnsupportedVersion"

(***************************************************************************)
(* C13 as stated: a record of the version before the current one that      *)
(* carries only the deprecated fields of the bounding rectangle is         *)
(* accepted, and the Meta has the rectangle of the deprecated min and edge *)
(* length and the nodes, tile size and deepest level of the record; a      *)
(* record of the current version gives the rectangle of its current       *)
(* fields.                                                                 *)
(***************************************************************************)
C13_MigratesVersion2 ==
    DecodedRecord =>
        LET p == decoded.proto
            m == decoded.meta
        IN /\ (p.version = CURRENT_VERSION - 1 /\ p.min = <<>>
                  /\ p.edge_length = 0) =>
                 /\ decoded.kind = "Ok"
                 /\ m.bounding_rect = Rect(p.deprecated_min[1],
                                           p.deprecated_min[2],
                                           p.deprecated_edge_length)
                 /\ m.nodes = NodesOfRecord(p)
                 /\ m.tile_size = p.tile_size
                 /\ m.deepest_level = p.deepest_level
           /\ p.version = CURRENT_VERSION =>
                 /\ decoded.kind = "Ok"
                 /\ m.bounding_rect =
                       IF p.min = <<>> THEN Rect(0, 0, p.edge_length)
                       ELSE Rect(p.min[1], p.min[2], p.edge_length)

(***************************************************************************)
(* C13 as amended: a record of the current version or of the one before it *)
(* is accepted; the Meta has the rectangle of the current min and edge     *)
(* length when the record's rectangle has a min, and of the deprecated min *)
(* and edge length when it has none, whatever the version; it has the tile *)
(* size of the record, and the node levels and the deepest level of the    *)
(* record modulo 256 (the same when they are below 256).                   *)
(***************************************************************************)
C13_MigratesByMin ==
    (DecodedRecord /\ decoded.proto.version \in
        {CURRENT_VERSION - 1, CURRENT_VERSION}) =>
        LET p == decoded.proto
            m == decoded.meta
        IN /\ decoded.kind = "Ok"
           /\ p.min = <<>> =>
                 m.bounding_rect = Rect(p.deprecated_min[1],
                                        p.deprecated_min[2],
                                        p.deprecated_edge_length)
           /\ p.min # <<>> =>
                 m.bounding_rect = Rect(p.min[1], p.min[2], p.edge_length)
           /\ m.nodes = {NodeId(n.level % 256, n.index) : n \in p.nodes}
           /\ m.tile_size = p.tile_size
           /\ m.deepest_level = p.deepest_level % 256

\* A record of version 2 with the deprecated fields only, min (2, 2) and
\* edge length 2, was read, with its two nodes.
C13_Witness ==
    /\ DecodedRecord
    /\ decoded.kind = "Ok"
    /\ decoded.proto.version = 2
    /\ decoded.proto.min = <<>>
    /\ decoded.proto.edge_length = 0
    /\ decoded.meta.bounding_rect = Rect(2, 2, 2)
    /\ decoded.meta.nodes = {RootId, NodeId(1, 3)}
    /\ decoded.meta.deepest_level = 1

(***************************************************************************)
(* C18 as stated: for every Meta m, from_proto(to_proto(m)) is accepted    *)
(* and has the nodes, bounding_rect, tile_size and deepest_level of m.     *)
(***************************************************************************)
C18_RoundTrip ==
    (DecodedRecord /\ decoded.proto = to_proto(unsaved)) =>
        /\ decoded.proto.version = CURRENT_VERSION
        /\ decoded.kind = "Ok"
        /\ decoded.meta.nodes = unsaved.nodes
        /\ decoded.meta.bounding_rect = unsaved.bounding_rect
        /\ decoded.meta.tile_size = unsaved.tile_size
        /\ decoded.meta.deepest_level = unsaved.deepest_level

(***************************************************************************)
(* C19 as stated: whatever keys the threads request concurrently, no       *)
(* thread asks for the write lock, or holds it, while it holds the read    *)
(* lock, and when the threads are scheduled fairly and the loader returns, *)
(* every call of load_octree returns.                                      *)
(***************************************************************************)
C19_NoUpgradeAndReturns ==
    /\ [](\A t \in Threads :
            pc[t] \in {"load", "wlock", "insert"} => t \notin readers)
    /\ \A t \in Threads : (pc[t] # "idle") ~> (pc[t] = "done")

(***************************************************************************)
(* Definitions shared by the properties of WebMercatorRect.                *)
(***************************************************************************)
\* The Web Mercator coordinate below or above the point.
Projected == <<point[1], -point[2]>>

\* The two rectangles have a side on one line (adjacent map tiles do).
ShareEdge(r, q) ==
    \E k \in 1 .. 2 :
        r.south_east[k] = q.north_west[k] \/ q.south_east[k] = r.north_west[k]

(***************************************************************************)
(* C15. contains tests the projected point against the half-open range     *)
(* [north_west, south_east): the north-west bound is in, the south-east    *)
(* bound is out, and no point is contained in both of two rectangles that  *)
(* share an edge.                                                          *)
(***************************************************************************)
C15_HalfOpen ==
    contained # <<>> =>
        /\ \A i \in 1 .. 2 :
              contained[i] <=>
                 /\ rects[i].north_west[1] <= Projected[1]
                 /\ rects[i].north_west[2] <= Projected[2]
                 /\ Projected[1] < rects[i].south_east[1]
                 /\ Projected[2] < rects[i].south_east[2]
        /\ ShareEdge(rects[1], rects[2]) => ~(contained[1] /\ contained[2])

\* The point is on the east edge of the first rectangle, which is the west
\* edge of the second: it is in the second only.
C15_Witness ==
    /\ contained = <<FALSE, TRUE>>
    /\ rects[1].south_east[1] = rects[2].north_west[1]
    /\ Projected[1] = rects[2].north_west[1]
    /\ rects[1].north_west[2] <= Projected[2]
    /\ Projected[2] < rects[1].south_east[2]

\* The two rectangles have no point in common, their bounds included.
Disjoint(r, q) ==
    \E k \in 1 .. 2 :
        r.south_east[k] < q.north_west[k] \/ q.south_east[k] < r.north_west[k]

\* The two rectangles have a part of their area in common.
Overlap(r, q) ==
    \A k \in 1 .. 2 :
        r.north_west[k] < q.south_east[k] /\ q.north_west[k] < r.south_east[k]

C17_NormalsOutward ==
    isect # <<>> =>
        \A i \in 1 .. 2 : \A f \in 1 .. 6 :
            LET n == isect[i].face_normals[f]
                c == isect[i].corners
            IN /\ n # <<0, 0, 0>>
               /\ \A j \in FaceCorners[f] :
                     Dot3(n, Sub3(c[j], c[OnFace[f]])) = 0
               /\ \A j \in (1 .. 8) \ FaceCorners[f] :
                     Dot3(n, Sub3(c[j], c[OnFace[f]])) < 0

====
